---- MODULE Spec2Model ----
(***************************************************************************)
(* Multi-channel audio ingestion of Hibou-Server: the per-channel byte     *)
(* accumulator of GstreamerSource, the MultiChannelQueue barrier of        *)
(* src/audio/utils.py, and the start/stop/drain lifecycle of Source.       *)
(* The pure parts of the pipeline follow: AngleOfArrivalEstimator, the     *)
(* 24-bit PCM and float32 decoders, and compute_energy, each applied to    *)
(* inputs drawn from bounded sets.  Further specifications run clear()     *)
(* beside the producers, change the buffer size while ingesting, give the  *)
(* same calls to the MultiChannelQueue with a lock, and run the main loop  *)
(* of main.py beside the drain thread.                                     *)
(*                                                                         *)
(* Channel ids are 0..NumChannels-1.  A FrameSet is a TLA+ sequence, so    *)
(* the frame of channel i sits at position i+1.                            *)
(***************************************************************************)
EXTENDS Integers, Sequences, FiniteSets, TLC

\* ------------------------------------------------------------------ bounds
NumChannels == 2        \* channels (appsinks) of the engine
MaxPuts == 2            \* puts per channel in the barrier specifications
MaxBytes == 12          \* bytes delivered by the backend, over all channels
MaxLifeBytes == 16      \* the same, in the lifecycle specification
MaxChunk == 6           \* largest chunk the backend delivers in one callback
MaxCalls == 4           \* start()/stop() calls made on one source object
MaxActive == 2          \* channels with energy in one estimate() call
MaxPcmSamples == 1      \* 24-bit samples in one buffer given to the PCM decoder
MaxWords == 2           \* float32 samples in one buffer given to the decoder
MaxSamples == 2         \* samples in one frame given to compute_energy
MaxClears == 1          \* clear() calls made beside the producer threads

\* ------------------------------------------------------- program constants
bytes_per_sample == 4
maxlen == 1             \* of the deque of AudioProcess

Channels == 0..(NumChannels - 1)
BufferSizes == {4, 8, 10}   \* buffer_size values given to the constructor
ChunkSizes == 1..MaxChunk

VARIABLES
    \* MultiChannelQueue (src/audio/utils.py)
    _channel_queues,        \* [Channels -> Seq(Frame)]
    _ready,                 \* Seq(FrameSet)
    \* one put() in progress per producer thread (thread t puts on channel t)
    pc,                     \* [Channels -> {"idle","check","pop","push"}]
    chkIdx,                 \* queue the all(...) generator looks at next
    popIdx,                 \* i of the list comprehension
    frame,                  \* the list being collected
    nput,                   \* puts begun on each channel so far
    \* GstreamerSource (src/audio/sources/gstreamer_source.py)
    required_buffer_size,
    _sinks_data,            \* [Channels -> Seq(byte id)]
    fed,                    \* bytes delivered to each channel so far
    discarded,              \* bytes dropped by the small-leftover rule
    discAt,                 \* id of the first byte of the latest DISCONT chunk
    lastEmit,               \* frames pushed by the latest callback of a channel
    \* Source (src/audio/audio.py) and GStreamerEngine
    _continue,
    _thread,                \* "new", "alive", "finished", "crashed"
    _callback,              \* TRUE when a callback is registered
    drainPc,                \* position of _run
    held,                   \* the FrameSet returned by get(), about to be emitted
    lastPoll,               \* outcome of the latest has_data() poll of _run
    engineState,            \* "null" or "playing"
    engineStarts,           \* calls of GStreamerEngine.start()
    raised,                 \* exception raised by the latest start()/stop()
    calls,                  \* start()/stop() calls made so far
    ctlPc,                  \* "idle", or "joining" inside stop()
    completed,              \* every FrameSet pushed to _ready since construction
    delivered,              \* every FrameSet passed to the callback
    atStop,                 \* <<>>, or what had been fed and delivered when
                            \* the latest stop() returned
    \* AngleOfArrivalEstimator (src/audio/angle_of_arrival.py)
    theta_smooth,           \* <<>> for None, <<degrees>> once set
    energies,               \* argument of the latest estimate(), <<>> before it
    theta_est,              \* raw angle of the latest estimate(), <<>> if none
    d_diff,                 \* d of the latest smoothing step, <<>> if none
    returned,               \* value returned by the latest estimate()
    \* the sample decoders (src/audio.py, src/audio/utils.py) and energy.py
    buff,                   \* the buffer given to a decoder
    audio_array,            \* the array the decoder returned, <<>> before
    pushed,                 \* the array _on_new_sample passes to _push_data
    samples,                \* the frame given to compute_energy
    energy,                 \* what compute_energy returned, <<>> before
    \* the latest _on_new_sample of each channel
    handed,                 \* the buffers it gave to bytes_to_audio, in order
    outcome,                \* "none", "returned" or "raised"
    atSignal,               \* <<>>, or where the drain loop was and what had
                            \* been delivered when stop() cleared _continue
    \* MultiChannelQueue.clear() running beside the producer threads
    clearPc,                \* "idle", or "ready" between its two statements
    stale,                  \* per producer: <<>>, or the replaced list of
                            \* FIFOs its all(...) generator still iterates
    atClear,                \* <<>>, or the puts returned per channel when the
                            \* latest clear() began
    \* MultiChannelQueue of src/audio/multi_channel_queue.py (with a lock)
    channel_queues,
    ready,
    taken,                  \* the FrameSet its latest get() returned
    \* AudioProcess and the main loop (src/main.py)
    audio_queue,            \* deque(maxlen=1)
    mainPc,                 \* "sleep", or "get" after is_empty() said False
    channels                \* what each get_last_channels() returned, in order

barrierVars == <<_channel_queues, _ready>>
putVars == <<pc, chkIdx, popIdx, frame>>
ingestVars == <<required_buffer_size, _sinks_data, fed, discarded, discAt, lastEmit,
                handed, outcome>>
ctlVars == <<_continue, _thread, _callback, engineState, engineStarts, raised, calls, ctlPc>>
drainVars == <<drainPc, held, lastPoll, delivered>>
lifeVars == <<ctlVars, drainVars>>
estVars == <<theta_smooth, energies, theta_est, d_diff, returned>>
decVars == <<buff, audio_array, pushed>>
energyVars == <<samples, energy>>
pureVars == <<estVars, decVars, energyVars>>
clearVars == <<clearPc, stale, atClear>>
lockedVars == <<channel_queues, ready, taken>>
mainVars == <<audio_queue, mainPc, channels>>
restVars == <<atSignal, clearVars, lockedVars, mainVars>>
vars == <<barrierVars, putVars, nput, completed, ingestVars, lifeVars, atStop,
          restVars, pureVars>>

\* ------------------------------------------------------------ construction
\* MultiChannelQueue.__init__ / set_channels_count: fresh empty queues
EmptyQueues == [c \in Channels |-> <<>>]

\* GstreamerSource.__init__: the buffer size is truncated to a float32 boundary
InitBufferSize(buffer_size) ==
    IF buffer_size % 4 # 0 THEN (buffer_size \div 4) * 4 ELSE buffer_size

\* GstreamerSource(pipelines_strs, buffer_size) followed by set_callback(),
\* as main.py sets the source up: empty queues and buffers, thread created
\* but not started; the estimator holds no angle.  The constructor checks
\* nothing about buffer_size.
Construct(buffer_size) ==
    /\ _channel_queues = EmptyQueues
    /\ _ready = <<>>
    /\ pc = [t \in Channels |-> "idle"]
    /\ chkIdx = [t \in Channels |-> 0]
    /\ popIdx = [t \in Channels |-> 0]
    /\ frame = [t \in Channels |-> <<>>]
    /\ nput = [c \in Channels |-> 0]
    /\ required_buffer_size = InitBufferSize(buffer_size)
    /\ _sinks_data = [c \in Channels |-> <<>>]
    /\ fed = [c \in Channels |-> 0]
    /\ discarded = [c \in Channels |-> 0]
    /\ discAt = [c \in Channels |-> 0]
    /\ lastEmit = [c \in Channels |-> <<>>]
    /\ _continue = FALSE
    /\ _thread = "new"
    /\ _callback = TRUE
    /\ drainPc = "loop"
    /\ held = <<>>
    /\ lastPoll = "none"
    /\ engineState = "null"
    /\ engineStarts = 0
    /\ raised = "none"
    /\ calls = 0
    /\ ctlPc = "idle"
    /\ completed = <<>>
    /\ delivered = <<>>
    /\ atStop = <<>>
    /\ theta_smooth = <<>>
    /\ energies = <<>>
    /\ theta_est = <<>>
    /\ d_diff = <<>>
    /\ returned = <<>>
    /\ handed = [c \in Channels |-> <<>>]
    /\ outcome = [c \in Channels |-> "none"]
    /\ atSignal = <<>>
    /\ clearPc = "idle"
    /\ stale = [t \in Channels |-> <<>>]
    /\ atClear = <<>>
    /\ channel_queues = EmptyQueues
    /\ ready = <<>>
    /\ taken = <<>>
    /\ audio_queue = <<>>
    /\ mainPc = "sleep"
    /\ channels = <<>>

InitSource == \E buffer_size \in BufferSizes : Construct(buffer_size)

\* no buffer has been given to a decoder
InitDecoder ==
    /\ buff = <<>>
    /\ audio_array = <<>>
    /\ pushed = <<>>

\* no frame has been given to compute_energy
InitEnergy ==
    /\ samples = <<>>
    /\ energy = <<>>

Init == InitSource /\ InitDecoder /\ InitEnergy

\* ------------------------------------------- MultiChannelQueue.put, by steps
\* The data a producer puts: tagged with its channel and its ordinal there.
NewFrame(c, data) == [ch |-> c, n |-> nput[c] + 1, data |-> data]

\* self._channel_queues[channel_id].put(data)
PutAppend(t) ==
    /\ pc[t] = "idle"
    /\ nput[t] < MaxPuts
    /\ _channel_queues' = [_channel_queues EXCEPT ![t] = Append(@, NewFrame(t, <<>>))]
    /\ nput' = [nput EXCEPT ![t] = @ + 1]
    /\ pc' = [pc EXCEPT ![t] = "check"]
    /\ chkIdx' = [chkIdx EXCEPT ![t] = 0]
    /\ UNCHANGED <<_ready, popIdx, frame, completed, ingestVars, lifeVars,
                   pureVars, atStop, restVars>>

\* the check with the plausible slip of any(...) for all(...)
PutCheck_Any(t) ==
    LET queues == IF stale[t] = <<>> THEN _channel_queues ELSE stale[t][1]
    IN  /\ pc[t] = "check"
        /\ IF queues[chkIdx[t]] # <<>>
           THEN /\ pc' = [pc EXCEPT ![t] = "pop"]
                /\ popIdx' = [popIdx EXCEPT ![t] = 0]
                /\ frame' = [frame EXCEPT ![t] = <<>>]
                /\ stale' = [stale EXCEPT ![t] = <<>>]
                /\ UNCHANGED chkIdx
           ELSE IF chkIdx[t] = NumChannels - 1
           THEN /\ pc' = [pc EXCEPT ![t] = "idle"]
                /\ stale' = [stale EXCEPT ![t] = <<>>]
                /\ UNCHANGED <<chkIdx, popIdx, frame>>
           ELSE /\ chkIdx' = [chkIdx EXCEPT ![t] = @ + 1]
                /\ UNCHANGED <<pc, popIdx, frame, stale>>
        /\ UNCHANGED <<barrierVars, nput, completed, ingestVars, lifeVars, pureVars,
                       atStop, atSignal, clearPc, atClear, lockedVars, mainVars>>

\* one q.empty() of all(not q.empty() for q in self._channel_queues).  The
\* generator iterates the list object it was created on: after a clear()
\* has replaced self._channel_queues it goes on reading the replaced FIFOs
\* (stale), which nothing changes any more.
PutCheck(t) ==
    LET queues == IF stale[t] = <<>> THEN _channel_queues ELSE stale[t][1]
    IN  /\ pc[t] = "check"
        /\ IF queues[chkIdx[t]] = <<>>
           THEN /\ pc' = [pc EXCEPT ![t] = "idle"]
                /\ stale' = [stale EXCEPT ![t] = <<>>]
                /\ UNCHANGED <<chkIdx, popIdx, frame>>
           ELSE IF chkIdx[t] = NumChannels - 1
           THEN /\ pc' = [pc EXCEPT ![t] = "pop"]
                /\ popIdx' = [popIdx EXCEPT ![t] = 0]
                /\ frame' = [frame EXCEPT ![t] = <<>>]
                /\ stale' = [stale EXCEPT ![t] = <<>>]
                /\ UNCHANGED chkIdx
           ELSE /\ chkIdx' = [chkIdx EXCEPT ![t] = @ + 1]
                /\ UNCHANGED <<pc, popIdx, frame, stale>>
        /\ UNCHANGED <<barrierVars, nput, completed, ingestVars, lifeVars, pureVars,
                       atStop, atSignal, clearPc, atClear, lockedVars, mainVars>>

\* PutPop with the plausible slip of reading the head without removing it
PutPop_Peek(t) ==
    /\ pc[t] = "pop"
    /\ _channel_queues[popIdx[t]] # <<>>
    /\ frame' = [frame EXCEPT ![t] = Append(@, Head(_channel_queues[popIdx[t]]))]
    /\ IF popIdx[t] = NumChannels - 1
       THEN pc' = [pc EXCEPT ![t] = "push"] /\ UNCHANGED popIdx
       ELSE popIdx' = [popIdx EXCEPT ![t] = @ + 1] /\ UNCHANGED pc
    /\ UNCHANGED <<barrierVars, chkIdx, nput, completed, ingestVars, lifeVars,
                   pureVars, atStop, restVars>>

\* one self._channel_queues[i].get() of the list comprehension; Queue.get()
\* blocks while the queue is empty
PutPop(t) ==
    /\ pc[t] = "pop"
    /\ _channel_queues[popIdx[t]] # <<>>
    /\ frame' = [frame EXCEPT ![t] = Append(@, Head(_channel_queues[popIdx[t]]))]
    /\ _channel_queues' = [_channel_queues EXCEPT ![popIdx[t]] = Tail(@)]
    /\ IF popIdx[t] = NumChannels - 1
       THEN pc' = [pc EXCEPT ![t] = "push"] /\ UNCHANGED popIdx
       ELSE popIdx' = [popIdx EXCEPT ![t] = @ + 1] /\ UNCHANGED pc
    /\ UNCHANGED <<_ready, chkIdx, nput, completed, ingestVars, lifeVars,
                   pureVars, atStop, restVars>>

\* self._ready.put(frame)
PutPush(t) ==
    /\ pc[t] = "push"
    /\ _ready' = Append(_ready, frame[t])
    /\ completed' = Append(completed, frame[t])
    /\ frame' = [frame EXCEPT ![t] = <<>>]
    /\ pc' = [pc EXCEPT ![t] = "idle"]
    /\ UNCHANGED <<_channel_queues, chkIdx, popIdx, nput, ingestVars, lifeVars,
                   pureVars, atStop, restVars>>

\* C producer threads, one per channel, each calling put MaxPuts times
NextPut == \E t \in Channels : PutAppend(t) \/ PutCheck(t) \/ PutPop(t) \/ PutPush(t)

SpecPut == Init /\ [][NextPut]_vars

\* ------------------------------- MultiChannelQueue.clear(), beside the puts
\* puts that have returned on each channel
PutsReturned == [c \in Channels |-> IF pc[c] = "idle" THEN nput[c] ELSE nput[c] - 1]

\* clear(): self.set_channels_count(self.num_channels) binds a new list of
\* new FIFOs.  A producer whose all(...) generator has begun keeps the
\* replaced list.
ClearChannels ==
    /\ clearPc = "idle"
    /\ IF atClear = <<>> THEN TRUE ELSE atClear[1].n < MaxClears
    /\ clearPc' = "ready"
    /\ _channel_queues' = EmptyQueues
    /\ stale' = [t \in Channels |->
                    IF pc[t] = "check" /\ chkIdx[t] > 0 /\ stale[t] = <<>>
                    THEN <<_channel_queues>> ELSE stale[t]]
    /\ atClear' = <<[done |-> PutsReturned, returned |-> FALSE,
                     n |-> IF atClear = <<>> THEN 1 ELSE atClear[1].n + 1]>>
    /\ UNCHANGED <<_ready, putVars, nput, completed, ingestVars, lifeVars, pureVars,
                   atStop, atSignal, lockedVars, mainVars>>

\* clear(): self._ready = queue.Queue(), and the call returns
ClearReady ==
    /\ clearPc = "ready"
    /\ clearPc' = "idle"
    /\ _ready' = <<>>
    /\ atClear' = <<[atClear[1] EXCEPT !.returned = TRUE]>>
    /\ UNCHANGED <<_channel_queues, putVars, nput, completed, ingestVars, lifeVars,
                   pureVars, atStop, atSignal, stale, lockedVars, mainVars>>

\* the producer threads of NextPut and one thread calling clear()
NextClear == NextPut \/ ClearChannels \/ ClearReady

SpecClear == Init /\ [][NextClear]_vars

\* ------------------------------------------------------- barrier properties
\* a FrameSet: exactly one frame per channel, the frame of channel i at i+1
WellFormed(fs) ==
    /\ Len(fs) = NumChannels
    /\ \A i \in Channels : fs[i + 1].ch = i

\* the put of producer t waits in Queue.get() on an empty channel FIFO
PutBlocked(t) == pc[t] = "pop" /\ _channel_queues[popIdx[t]] = <<>>

\* producer t has returned from all its puts
PutDone(t) == pc[t] = "idle" /\ nput[t] = MaxPuts

\* every frame put so far is in exactly one completed FrameSet
EveryFrameOnce ==
    \A c \in Channels : \A n \in 1..MaxPuts :
        Cardinality({k \in 1..Len(_ready) : _ready[k][c + 1].n = n}) = 1

\* C1: when C producer threads, one per channel, each call put MaxPuts
\* times in any interleaving, then once all puts have returned the completed
\* queue holds exactly MaxPuts FrameSets, each with exactly one frame of
\* every channel, and no frame is lost, duplicated or in the wrong place.
C1_BarrierAtomicity ==
    (\A t \in Channels : PutDone(t)) =>
        /\ Len(_ready) = MaxPuts
        /\ \A k \in 1..Len(_ready) : WellFormed(_ready[k])
        /\ EveryFrameOnce

\* all producers have returned from all their puts and the completed queue
\* is full
C1_Witness ==
    /\ \A t \in Channels : PutDone(t)
    /\ Len(_ready) = MaxPuts

\* C2: whenever the all-channels-non-empty check of a put has succeeded,
\* each of its following per-channel pops finds an item: no producer thread
\* waits on an empty channel FIFO.
C2_PutNeverBlocks == \A t \in Channels : ~PutBlocked(t)

\* ------------------------------------ MultiChannelQueue, one call at a time
\* frame = [self._channel_queues[i].get() for i in range(self.num_channels)]
CollectFrame_Reversed(cq) == [i \in 1..NumChannels |-> Head(cq[NumChannels - i])]

CollectFrame(cq) == [i \in 1..NumChannels |-> Head(cq[i - 1])]

\* put with the plausible slip of reading the heads without removing them
Put_KeepHeads(cq, rd, channel_id, data) ==
    LET q1 == [cq EXCEPT ![channel_id] = Append(@, data)]
    IN  IF \A i \in Channels : q1[i] # <<>>
        THEN [cq |-> q1, rd |-> Append(rd, CollectFrame(q1))]
        ELSE [cq |-> q1, rd |-> rd]

\* put(channel_id, data) run to completion: the queues and the completed
\* queue it leaves
Put(cq, rd, channel_id, data) ==
    LET q1 == [cq EXCEPT ![channel_id] = Append(@, data)]
    IN  IF \A i \in Channels : q1[i] # <<>>
        THEN [cq |-> [i \in Channels |-> Tail(q1[i])],
              rd |-> Append(rd, CollectFrame(q1))]
        ELSE [cq |-> q1, rd |-> rd]

\* the FrameSets a call appended to the completed queue
Appended(old, new) == SubSeq(new, Len(old) + 1, Len(new))

ApiPut(c) ==
    /\ nput[c] < MaxPuts
    /\ LET r == Put(_channel_queues, _ready, c, NewFrame(c, <<>>))
       IN  /\ _channel_queues' = r.cq
           /\ _ready' = r.rd
           /\ completed' = completed \o Appended(_ready, r.rd)
    /\ nput' = [nput EXCEPT ![c] = @ + 1]
    /\ UNCHANGED <<putVars, pureVars, atStop, restVars, ingestVars, lifeVars>>

\* get(): block defaults to True, so the call returns only once the
\* completed queue holds a FrameSet
ApiGet ==
    /\ _ready # <<>>
    /\ held' = Head(_ready)
    /\ _ready' = Tail(_ready)
    /\ UNCHANGED <<_channel_queues, putVars, pureVars, atStop, restVars, nput, completed,
                   ingestVars,
                   ctlVars, drainPc, lastPoll, delivered>>

\* clear(): set_channels_count(self.num_channels); self._ready = queue.Queue()
ApiClear ==
    /\ _channel_queues' = EmptyQueues
    /\ _ready' = <<>>
    /\ UNCHANGED <<putVars, pureVars, atStop, restVars, nput, completed, ingestVars, lifeVars>>

NextApi == (\E c \in Channels : ApiPut(c)) \/ ApiGet \/ ApiClear

SpecApi == Init /\ [][NextApi]_vars

\* C3: in every state reachable by put, get and clear calls, every element
\* of the completed queue is a list of exactly NumChannels frames whose i-th
\* element was put on channel i.
C3_FrameSetShape == \A k \in 1..Len(_ready) : WellFormed(_ready[k])

\* a FrameSet completed after a clear() dropped frames of one channel only:
\* its frames have different ordinals on their channels
C3_Witness ==
    \E k \in 1..Len(_ready) : \E i, j \in Channels : _ready[k][i + 1].n # _ready[k][j + 1].n

\* ------------------- the two MultiChannelQueue classes, given the same calls
\* multi_channel_queue.py put with the plausible slip of collecting the
\* newest frame of each FIFO
LockedPut_Newest(cq, rd, channel_id, data) ==
    LET q1 == [cq EXCEPT ![channel_id] = Append(@, data)]
    IN  IF \A i \in Channels : q1[i] # <<>>
        THEN [cq |-> [i \in Channels |-> SubSeq(q1[i], 1, Len(q1[i]) - 1)],
              rd |-> Append(rd, [i \in 1..NumChannels |->
                                    q1[i - 1][Len(q1[i - 1])]])]
        ELSE [cq |-> q1, rd |-> rd]

\* multi_channel_queue.py put(channel_id, data), the whole body under
\* self.lock: append to the channel FIFO; if all FIFOs are non-empty, get
\* the head of each, in channel order, and put the list on self.ready.
\* (The MultiChannelQueue of src/audio.py has the same body.)
LockedPut(cq, rd, channel_id, data) ==
    LET q1 == [cq EXCEPT ![channel_id] = Append(@, data)]
    IN  IF \A i \in Channels : q1[i] # <<>>
        THEN [cq |-> [i \in Channels |-> Tail(q1[i])],
              rd |-> Append(rd, [i \in 1..NumChannels |-> Head(q1[i - 1])])]
        ELSE [cq |-> q1, rd |-> rd]

\* sample arrays a caller puts
PutData == {<<>>, <<0>>}

\* put(c, data) on an object of each class
BothPut(c, data) ==
    /\ nput[c] < MaxPuts
    /\ LET r == Put(_channel_queues, _ready, c, NewFrame(c, data))
           l == LockedPut(channel_queues, ready, c, NewFrame(c, data))
       IN  /\ _channel_queues' = r.cq
           /\ _ready' = r.rd
           /\ completed' = completed \o Appended(_ready, r.rd)
           /\ channel_queues' = l.cq
           /\ ready' = l.rd
    /\ nput' = [nput EXCEPT ![c] = @ + 1]
    /\ UNCHANGED <<putVars, pureVars, atStop, atSignal, clearVars, taken, mainVars,
                   ingestVars, lifeVars>>

\* get() on an object of each class; it returns on both only when both
\* completed queues hold a FrameSet
BothGet ==
    /\ _ready # <<>>
    /\ ready # <<>>
    /\ held' = Head(_ready)
    /\ _ready' = Tail(_ready)
    /\ taken' = Head(ready)
    /\ ready' = Tail(ready)
    /\ UNCHANGED <<_channel_queues, channel_queues, putVars, pureVars, atStop,
                   atSignal, clearVars, mainVars, nput, completed, ingestVars,
                   ctlVars, drainPc, lastPoll, delivered>>

NextBoth == (\E c \in Channels, data \in PutData : BothPut(c, data)) \/ BothGet

SpecBoth == Init /\ [][NextBoth]_vars

\* ------------------------------------------- GstreamerSource._on_new_sample
\* The backend delivers bytes; byte k of a channel's stream is the number k,
\* so that a frame tells which bytes of the stream it was cut from.
Chunk(c, len) == [k \in 1..len |-> fed[c] + k]

RECURSIVE SumOver(_, _)
SumOver(f, S) ==
    IF S = {} THEN 0
    ELSE LET x == CHOOSE y \in S : TRUE IN f[x] + SumOver(f, S \ {x})

\* aligned_buffer_size
Aligned(size) == (size \div bytes_per_sample) * bytes_per_sample

\* np.frombuffer(raw_bytes, dtype=np.float32): one sample per 4 bytes.  The
\* value scrubbing of nan_to_num and of the corrupt mask changes sample
\* values, not which bytes a sample is made of.
bytes_to_audio(raw_bytes) ==
    [i \in 1..(Len(raw_bytes) \div bytes_per_sample) |->
        SubSeq(raw_bytes, bytes_per_sample * (i - 1) + 1, bytes_per_sample * i)]

\* normalize(arr) returns arr
normalize(arr) == arr

\* the slicing loop with the plausible off-by-one of a strict comparison
RECURSIVE SliceLoop_Strict(_, _)
SliceLoop_Strict(data, size) ==
    IF Len(data) > size
    THEN LET r == SliceLoop_Strict(SubSeq(data, size + 1, Len(data)), size)
         IN  [buffs |-> <<SubSeq(data, 1, size)>> \o r.buffs, rest |-> r.rest]
    ELSE [buffs |-> <<>>, rest |-> data]

\* the slicing loop: while len(data) >= size: buff = data[:size]; data = data[size:]
RECURSIVE SliceLoop(_, _)
SliceLoop(data, size) ==
    IF Len(data) >= size
    THEN LET r == SliceLoop(SubSeq(data, size + 1, Len(data)), size)
         IN  [buffs |-> <<SubSeq(data, 1, size)>> \o r.buffs, rest |-> r.rest]
    ELSE [buffs |-> <<>>, rest |-> data]

\* the leftover rule with the plausible slip of dropping a leftover of any
\* length
Leftover_AnyLength(rest, size, extracted_any) ==
    IF extracted_any /\ 0 < Len(rest) THEN <<>> ELSE rest

\* the leftover kept for the next call: a fragment shorter than half a
\* buffer is discarded once at least one buffer was extracted
Leftover(rest, size, extracted_any) ==
    IF extracted_any /\ 0 < Len(rest) /\ Len(rest) < size \div 2
    THEN <<>>
    ELSE rest

\* _push_data for each sliced buffer in turn
RECURSIVE PutAll(_, _, _, _)
PutAll(cq, rd, c, frames) ==
    IF frames = <<>> THEN [cq |-> cq, rd |-> rd]
    ELSE LET r == Put(cq, rd, c, Head(frames))
         IN  PutAll(r.cq, r.rd, c, Tail(frames))

\* the slicing loop when the aligned size is not positive (the constructor
\* accepts such sizes): the loop condition always holds.  With size 0 the
\* first buff is empty and np.min(audio_array) raises ValueError.  With a
\* negative size buff = data[:size] is all but the last -size bytes and
\* data[size:] the last -size bytes: an empty or misaligned buff raises (in
\* np.min or in np.frombuffer), any other buff is pushed and the next
\* iteration raises on an empty buff.  The exception leaves the callback,
\* skipping the leftover rule; the engine catches it.
SliceNonPositive(data, size) ==
    LET keep == IF Len(data) < -size THEN Len(data) ELSE -size
        b == SubSeq(data, 1, Len(data) - keep)
        rest == SubSeq(data, Len(data) - keep + 1, Len(data))
    IN  IF size = 0 THEN [buffs |-> <<>>, rest |-> data, handed |-> << <<>> >>]
        ELSE IF b = <<>> \/ Len(b) % bytes_per_sample # 0
        THEN [buffs |-> <<>>, rest |-> rest, handed |-> <<b>>]
        ELSE [buffs |-> <<b>>, rest |-> rest, handed |-> <<b, <<>> >>]

\* _on_new_sample(channel_id, data).  With a positive aligned size every
\* buffer cut by the loop is decoded and pushed and the call returns; with
\* any other size the call ends in the ValueError described above.
OnNewSample(c, data) ==
    LET size == Aligned(required_buffer_size)
        r == IF size > 0 THEN SliceLoop(_sinks_data[c] \o data, size)
             ELSE SliceNonPositive(_sinks_data[c] \o data, size)
        rest == IF size > 0 THEN Leftover(r.rest, size, r.buffs # <<>>)
                ELSE r.rest
        frames == [k \in 1..Len(r.buffs) |->
                     [ch |-> c, n |-> nput[c] + k,
                      data |-> normalize(bytes_to_audio(r.buffs[k]))]]
        b == PutAll(_channel_queues, _ready, c, frames)
    IN  /\ _sinks_data' = [_sinks_data EXCEPT ![c] = rest]
        /\ _channel_queues' = b.cq
        /\ _ready' = b.rd
        /\ completed' = completed \o Appended(_ready, b.rd)
        /\ nput' = [nput EXCEPT ![c] = @ + Len(frames)]
        /\ fed' = [fed EXCEPT ![c] = @ + Len(data)]
        /\ discarded' = [discarded EXCEPT ![c] = @ + Len(r.rest) - Len(rest)]
        /\ lastEmit' = [lastEmit EXCEPT ![c] = frames]
        /\ handed' = [handed EXCEPT ![c] = IF size > 0 THEN r.buffs ELSE r.handed]
        /\ outcome' = [outcome EXCEPT ![c] = IF size > 0 THEN "returned" ELSE "raised"]
        /\ UNCHANGED <<required_buffer_size, putVars, pureVars, atStop, restVars>>

\* the timestamp a pushed frame carries: _push_data is given the sample array
\* and nothing else, and neither the engine nor the source reads a buffer's
\* timestamp or keeps one per channel, so a frame carries none (<<>>)
Stamp(f) == <<>>

\* GStreamerEngine._handle_new_sample: the buffer's bytes are passed upward;
\* the buffer's DISCONT flag (discont) is not read.  discAt remembers where
\* the backend flagged the latest discontinuity of the channel.
HandleNewSample(c, len, discont) ==
    /\ discAt' = [discAt EXCEPT ![c] = IF discont THEN fed[c] + 1 ELSE @]
    /\ OnNewSample(c, Chunk(c, len))

Ingest(c, len, discont) ==
    /\ SumOver(fed, Channels) + len <= MaxBytes
    /\ HandleNewSample(c, len, discont)
    /\ UNCHANGED lifeVars

NextIngest == \E c \in Channels, len \in ChunkSizes, discont \in BOOLEAN : Ingest(c, len, discont)

SpecIngest == Init /\ [][NextIngest]_vars

\* buffer sizes a caller may pass to set_buffer_size
SetSizes == {-5, 3, 6}

\* set_buffer_size(buffer_size): the value is stored as given
SetBufferSize(buffer_size) ==
    /\ required_buffer_size' = buffer_size
    /\ UNCHANGED <<barrierVars, putVars, nput, completed, _sinks_data, fed, discarded,
                   discAt, lastEmit, handed, outcome, lifeVars, pureVars, atStop,
                   restVars>>

\* ------------------------------------------- Source / GstreamerSource lifecycle
\* clear_pendings() with the plausible slip of clearing the barrier only
ClearPendings_BarrierOnly ==
    /\ _channel_queues' = EmptyQueues
    /\ _ready' = <<>>
    /\ UNCHANGED _sinks_data

\* clear_pendings(): the barrier is cleared, every pending buffer reset
ClearPendings ==
    /\ _channel_queues' = EmptyQueues
    /\ _ready' = <<>>
    /\ _sinks_data' = [c \in Channels |-> <<>>]

\* GstreamerSource.start(): Source.start(), then self._engine.start().
\* Thread.start() raises RuntimeError on a thread that was started before,
\* and the exception leaves start() before the engine is started.
Start ==
    /\ ctlPc = "idle"
    /\ calls < MaxCalls
    /\ calls' = calls + 1
    /\ IF _continue
       THEN /\ engineState' = "playing"
            /\ engineStarts' = engineStarts + 1
            /\ raised' = "none"
            /\ UNCHANGED <<_continue, _thread, drainPc>>
       ELSE /\ _continue' = TRUE
            /\ IF _thread = "new"
               THEN /\ _thread' = "alive"
                    /\ drainPc' = "loop"
                    /\ engineState' = "playing"
                    /\ engineStarts' = engineStarts + 1
                    /\ raised' = "none"
               ELSE /\ raised' = "RuntimeError"
                    /\ UNCHANGED <<_thread, drainPc, engineState, engineStarts>>
    /\ UNCHANGED <<barrierVars, putVars, pureVars, atStop, restVars, nput, completed, ingestVars,
                   _callback, ctlPc, held, lastPoll, delivered>>

\* GstreamerSource.stop() up to the join: self._engine.stop(), then
\* Source.stop() clears the flag and joins the thread.  Thread.join() raises
\* RuntimeError on a thread that was never started, and the exception
\* leaves stop() before clear_pendings().
StopBegin ==
    /\ ctlPc = "idle"
    /\ calls < MaxCalls
    /\ calls' = calls + 1
    /\ engineState' = "null"
    /\ _continue' = FALSE
    /\ IF _thread = "new"
       THEN raised' = "RuntimeError" /\ UNCHANGED ctlPc
       ELSE raised' = "none" /\ ctlPc' = "joining"
    /\ atSignal' = <<[pc |-> drainPc, delivered |-> Len(delivered)]>>
    /\ UNCHANGED <<barrierVars, putVars, pureVars, atStop, clearVars, lockedVars,
                   mainVars, nput, completed, ingestVars,
                   _thread, _callback, engineStarts, drainVars>>

\* the join returns once the drain thread has ended; then clear_pendings()
StopJoin ==
    /\ ctlPc = "joining"
    /\ _thread \in {"finished", "crashed"}
    /\ ctlPc' = "idle"
    /\ ClearPendings
    /\ atStop' = <<[fed |-> fed, delivered |-> Len(delivered)]>>
    /\ UNCHANGED <<putVars, pureVars, restVars, nput, completed,
                   required_buffer_size, fed, discarded, discAt, lastEmit,
                   handed, outcome, _continue, _thread, _callback,
                   engineState, engineStarts, raised, calls, drainVars>>

\* the outer loop with the plausible slip of not reading the flag
DrainLoop_NoExit ==
    /\ _thread = "alive"
    /\ drainPc = "loop"
    /\ drainPc' = "poll"
    /\ UNCHANGED <<barrierVars, putVars, pureVars, atStop, restVars, nput, completed,
                   ingestVars, ctlVars, held, lastPoll, delivered>>

\* _run: while self._continue: time.sleep(0.1)
DrainLoop ==
    /\ _thread = "alive"
    /\ drainPc = "loop"
    /\ IF _continue
       THEN drainPc' = "poll" /\ UNCHANGED _thread
       ELSE _thread' = "finished" /\ UNCHANGED drainPc
    /\ UNCHANGED <<barrierVars, putVars, pureVars, atStop, restVars, nput, completed, ingestVars,
                   _continue, _callback, engineState, engineStarts, raised,
                   calls, ctlPc, held, lastPoll, delivered>>

\* _run: while self._data_queue.has_data() and self._continue
DrainPoll_NoCheck ==
    /\ _thread = "alive"
    /\ drainPc = "poll"
    /\ lastPoll' = IF _ready # <<>> THEN "data" ELSE "empty"
    /\ drainPc' = IF _continue THEN "get" ELSE "loop"
    /\ UNCHANGED <<barrierVars, putVars, pureVars, atStop, restVars, nput, completed, ingestVars,
                   ctlVars, held, delivered>>

DrainPoll ==
    /\ _thread = "alive"
    /\ drainPc = "poll"
    /\ lastPoll' = IF _ready # <<>> THEN "data" ELSE "empty"
    /\ drainPc' = IF _ready # <<>> /\ _continue THEN "get" ELSE "loop"
    /\ UNCHANGED <<barrierVars, putVars, pureVars, atStop, restVars, nput, completed, ingestVars,
                   ctlVars, held, delivered>>

\* _run: self._data_queue.get(), which waits while the completed queue is empty
DrainGet ==
    /\ _thread = "alive"
    /\ drainPc = "get"
    /\ _ready # <<>>
    /\ held' = Head(_ready)
    /\ _ready' = Tail(_ready)
    /\ drainPc' = "emit"
    /\ UNCHANGED <<_channel_queues, putVars, pureVars, atStop, restVars, nput, completed,
                   ingestVars,
                   ctlVars, lastPoll, delivered>>

\* AudioProcess.process(audio_samples), the registered callback:
\* self.audio_queue.append(audio_samples) on a deque(maxlen=1), which drops
\* items from its left end once it is full
Process(q, audio_samples) ==
    LET a == Append(q, audio_samples)
    IN  IF Len(a) > maxlen THEN SubSeq(a, Len(a) - maxlen + 1, Len(a)) ELSE a

\* _emit(data), the callback returning normally
DrainEmitReturn ==
    /\ _thread = "alive"
    /\ drainPc = "emit"
    /\ delivered' = IF _callback THEN Append(delivered, held) ELSE delivered
    /\ audio_queue' = IF _callback THEN Process(audio_queue, held) ELSE audio_queue
    /\ drainPc' = "poll"
    /\ UNCHANGED <<barrierVars, putVars, pureVars, atStop, atSignal, clearVars,
                   lockedVars, mainPc, channels, nput, completed, ingestVars,
                   ctlVars, held, lastPoll>>

\* _emit(data), the callback raising (process appends, then model.infer
\* raises): neither _emit nor _run has a handler, so the exception ends the
\* thread
DrainEmitRaise ==
    /\ _thread = "alive"
    /\ drainPc = "emit"
    /\ _callback
    /\ delivered' = Append(delivered, held)
    /\ audio_queue' = Process(audio_queue, held)
    /\ _thread' = "crashed"
    /\ UNCHANGED <<barrierVars, putVars, pureVars, atStop, atSignal, clearVars,
                   lockedVars, mainPc, channels, nput, completed, ingestVars,
                   _continue, _callback, engineState, engineStarts, raised,
                   calls, ctlPc, drainPc, held, lastPoll>>

DrainStep == DrainLoop \/ DrainPoll \/ DrainGet \/ DrainEmitReturn \/ DrainEmitRaise

\* chunk sizes the backend delivers in the lifecycle specification
LifeChunkSizes == {2, 4}

\* the backend calls back only while the engine's pipelines are playing
Backend(c, len) ==
    /\ engineState = "playing"
    /\ SumOver(fed, Channels) + len <= MaxLifeBytes
    /\ HandleNewSample(c, len, FALSE)
    /\ UNCHANGED lifeVars

NextLife ==
    \/ Start \/ StopBegin \/ StopJoin
    \/ DrainStep
    \/ \E c \in Channels, len \in LifeChunkSizes : Backend(c, len)

\* the main loop of main.py: if not audio.is_empty()
MainIsEmpty ==
    /\ mainPc = "sleep"
    /\ mainPc' = IF Len(audio_queue) = 0 THEN "sleep" ELSE "get"
    /\ UNCHANGED <<barrierVars, putVars, pureVars, atStop, atSignal, clearVars,
                   lockedVars, audio_queue, channels, nput, completed, ingestVars,
                   lifeVars>>

\* get_last_channels with the plausible slip of reading audio_queue[-1]
\* without removing it
MainGetLastChannels_Peek ==
    /\ mainPc = "get"
    /\ channels' = Append(channels, audio_queue)
    /\ mainPc' = "sleep"
    /\ UNCHANGED <<barrierVars, putVars, pureVars, atStop, atSignal, clearVars,
                   lockedVars, audio_queue, nput, completed, ingestVars, lifeVars>>

\* the main loop: channels = audio.get_last_channels(), which pops the
\* deque, or returns None (<<>>) on IndexError when the deque is empty
MainGetLastChannels ==
    /\ mainPc = "get"
    /\ channels' = Append(channels, audio_queue)
    /\ audio_queue' = <<>>
    /\ mainPc' = "sleep"
    /\ UNCHANGED <<barrierVars, putVars, pureVars, atStop, atSignal, clearVars,
                   lockedVars, nput, completed, ingestVars, lifeVars>>

\* the source, its backend and drain thread, and the main loop beside them
NextMain == NextLife \/ MainIsEmpty \/ MainGetLastChannels

\* a source constructed with a buffer of one float32 sample
InitLife == Init /\ required_buffer_size = 4

SpecLife == InitLife /\ [][NextLife]_vars

SpecMain == InitLife /\ [][NextMain]_vars

\* the drain thread is scheduled as long as it can run, and a join returns
\* once the thread has ended
FairSpecLife == SpecLife /\ WF_vars(DrainStep) /\ WF_vars(StopJoin)

\* ------------------------------------------------------- ingest properties
\* bytes a frame was decoded from
RECURSIVE Flatten(_)
Flatten(ss) == IF ss = <<>> THEN <<>> ELSE Head(ss) \o Flatten(Tail(ss))

FrameBytes(f) == Flatten(f.data)

Range(sq) == {sq[k] : k \in 1..Len(sq)}

C5_DiscontinuityDiscard ==
    \A c \in Channels :
        /\ \A k \in 1..Len(lastEmit[c]) :
              \A b \in Range(FrameBytes(lastEmit[c][k])) : b >= discAt[c]
        /\ \A b \in Range(_sinks_data[c]) : b >= discAt[c]

\* ---------------------------------------------------- lifecycle properties
\* FrameSets the lifecycle specification can complete
MaxSets == MaxLifeBytes \div (bytes_per_sample * NumChannels)

\* C6: start() on a source that is already RUNNING changes nothing (no
\* second drain thread, no second backend start); stop() on a source that is
\* STOPPED changes nothing and raises no error.
C6_LifecycleNoOps ==
    [][ /\ (Start /\ _continue) =>
              /\ raised' = "none"
              /\ UNCHANGED <<_continue, _thread, drainPc, engineState, engineStarts>>
        /\ (StopBegin /\ ~_continue) =>
              /\ raised' = "none"
              /\ UNCHANGED <<_continue, _thread, engineState, barrierVars, _sinks_data>>
      ]_vars

\* C7: after start() and stop(), a further start() succeeds and puts the
\* source back in RUNNING with a live drain loop.
C7_Restartable ==
    [][ (Start /\ ~_continue /\ _thread # "new") =>
            /\ raised' = "none"
            /\ _continue'
            /\ _thread' = "alive"
            /\ engineState' = "playing"
      ]_vars

\* position of a FrameSet in the completion order (frames carry their
\* ordinals, so a FrameSet is completed once)
Pos(fs) == CHOOSE k \in 1..Len(completed) : completed[k] = fs

\* C8: FrameSets reach the callback exactly once and in the order in which
\* the barrier completed them, and while the source stays RUNNING every
\* FrameSet waiting in the completed queue is eventually passed to the
\* callback.
C8_ExactlyOnceInOrder ==
    /\ [](/\ \A i \in 1..Len(delivered) : delivered[i] \in Range(completed)
          /\ \A i, j \in 1..Len(delivered) :
                i < j => Pos(delivered[i]) < Pos(delivered[j]))
    /\ \A k \in 1..MaxSets :
          (_continue /\ k <= Len(completed) /\ completed[k] \in Range(_ready))
             ~> (~_continue \/ (k <= Len(completed) /\ completed[k] \in Range(delivered)))

\* C9: when the callback raises, the drain loop catches the error and goes
\* on polling.
C9_FailingConsumerContinues ==
    [][ DrainEmitRaise => (_thread' = "alive" /\ drainPc' = "poll") ]_vars

angle_coverage == 360
smoothing_num == 4          \* smoothing = 0.8 = smoothing_num / smoothing_den
smoothing_den == 5
silence_threshold == 2      \* 1e-8, in energy units of 5e-9

\* the estimator is constructed for four channels
EstChannels == 0..3
EnergyLevels == {0, 1, 200}
EnergyVectors ==
    {e \in [EstChannels -> EnergyLevels] :
        Cardinality({k \in EstChannels : e[k] # 0}) <= MaxActive}

\* np.linspace(0, angle_coverage, nb_channels, endpoint=False)
angles_deg ==
    [k \in EstChannels |-> (k * angle_coverage) \div Cardinality(EstChannels)]

\* np.cos / np.sin of the bearings 0, 90, 180, 270, without their rounding
\* residues of about 1e-16 (see RawAngles for the one case they decide)
Cos(a) == CASE a = 0 -> 1 [] a = 90 -> 0 [] a = 180 -> -1 [] a = 270 -> 0
Sin(a) == CASE a = 0 -> 0 [] a = 90 -> 1 [] a = 180 -> 0 [] a = 270 -> -1

Abs(x) == IF x < 0 THEN -x ELSE x
Sgn(x) == IF x < 0 THEN -1 ELSE IF x > 0 THEN 1 ELSE 0

\* num / den rounded to the nearest integer, ties to even (den > 0)
RoundDiv(num, den) ==
    LET q == num \div den
        r == num % den
    IN  IF 2 * r < den THEN q
        ELSE IF 2 * r > den THEN q + 1
        ELSE IF q % 2 = 0 THEN q ELSE q + 1

\* np.sum(energies)
SumEnergies(e) == SumOver(e, EstChannels)

\* X and Y times np.sum(energies): the weights share that positive
\* denominator, and arctan2 depends on the ratio of Y and X only
XNum(e) == SumOver([k \in EstChannels |-> e[k] * Cos(angles_deg[k])], EstChannels)
YNum(e) == SumOver([k \in EstChannels |-> e[k] * Sin(angles_deg[k])], EstChannels)

\* arctan(n / den) in degrees for 0 <= n <= den, den > 0, rounded to the grid
\* (45 t + 15.64 t (1 - t), within 0.22 degrees of the arctangent)
AtanOctant(n, den) ==
    RoundDiv(4500 * n * den + 1564 * n * (den - n), 100 * den * den)

\* np.rad2deg(np.arctan2(Y, X)): deg in -180..180, and tiny the sign of a
\* nonzero result that rounds to 0
Arctan2Deg(y, x) ==
    IF x = 0 /\ y = 0 THEN [deg |-> 0, tiny |-> 0]
    ELSE LET q == IF Abs(y) <= Abs(x) THEN AtanOctant(Abs(y), Abs(x))
                  ELSE 90 - AtanOctant(Abs(x), Abs(y))
             deg == IF x >= 0 THEN Sgn(y) * q
                    ELSE IF y >= 0 THEN 180 - q ELSE q - 180
         IN  [deg |-> deg, tiny |-> IF deg = 0 THEN Sgn(y) ELSE 0]

\* a % 360 of numpy on float64: the C fmod keeps the sign of a, and a
\* negative remainder gets 360.0 added; 360.0 plus a tiny negative value
\* rounds to 360.0
Remainder360(a) ==
    IF a.deg = 0 /\ a.tiny < 0 THEN 360
    ELSE a.deg % 360

\* lines 25-30
RawAngle(e) == Remainder360(Arctan2Deg(YNum(e), XNum(e)))

\* theta_est for energies e.  When opposite channels cancel exactly, X and Y
\* are rounding residues of the sines and cosines only and the float result
\* can be any direction: the model lets it be any of the eight compass points.
RawAngles(e) ==
    IF XNum(e) = 0 /\ YNum(e) = 0
    THEN {45 * k : k \in 0..7}
    ELSE {RawAngle(e)}

\* the difference with the plausible slip of leaving the wrap out
ShortestDiff_NoWrap(raw, previous) == raw - previous

\* lines 36-38: d = ((theta_est - self.theta_smooth + 540) % 360) - 180
ShortestDiff(raw, previous) == ((raw - previous + 540) % 360) - 180

\* line 39: (self.theta_smooth + self.smoothing * d) % 360
Smooth(previous, d) ==
    (previous + RoundDiv(smoothing_num * d, smoothing_den)) % 360

\* the silence test with the plausible slip of testing for all-zero energies
IsSilent_ZeroOnly(e) == SumEnergies(e) = 0

\* line 21: np.sum(energies) < 1e-8
IsSilent(e) == SumEnergies(e) < silence_threshold

\* estimate with the plausible slip of smoothing the first estimate too,
\* from a stored angle of 0
Estimate_SmoothFirst(e) ==
    /\ energies' = e
    /\ IF IsSilent(e)
       THEN /\ returned' = theta_smooth
            /\ theta_est' = <<>>
            /\ d_diff' = <<>>
            /\ UNCHANGED theta_smooth
       ELSE \E raw \in RawAngles(e) :
            /\ theta_est' = <<raw>>
            /\ IF theta_smooth = <<>>
               THEN /\ theta_smooth' = <<Smooth(0, ShortestDiff(raw, 0))>>
                    /\ d_diff' = <<>>
               ELSE \E d \in {ShortestDiff(raw, theta_smooth[1])} :
                    /\ d_diff' = <<d>>
                    /\ theta_smooth' = <<Smooth(theta_smooth[1], d)>>
            /\ returned' = theta_smooth'
    /\ UNCHANGED <<barrierVars, putVars, nput, completed, ingestVars, lifeVars,
                   atStop, restVars, decVars, energyVars>>

\* estimate(energies)
Estimate(e) ==
    /\ energies' = e
    /\ IF IsSilent(e)
       THEN /\ returned' = theta_smooth
            /\ theta_est' = <<>>
            /\ d_diff' = <<>>
            /\ UNCHANGED theta_smooth
       ELSE \E raw \in RawAngles(e) :
            /\ theta_est' = <<raw>>
            /\ IF theta_smooth = <<>>
               THEN /\ theta_smooth' = <<raw>>
                    /\ d_diff' = <<>>
               ELSE \E d \in {ShortestDiff(raw, theta_smooth[1])} :
                    /\ d_diff' = <<d>>
                    /\ theta_smooth' = <<Smooth(theta_smooth[1], d)>>
            /\ returned' = theta_smooth'
    /\ UNCHANGED <<barrierVars, putVars, nput, completed, ingestVars, lifeVars,
                   atStop, restVars, decVars, energyVars>>

NextEstimate == \E e \in EnergyVectors : Estimate(e)

SpecEstimate == InitLife /\ [][NextEstimate]_vars

\* ----------------------------------------------------- estimator properties
\* the latest call was made with energies below the silence threshold
SilentCall(e) == SumOver(e, EstChannels) < silence_threshold

\* C11: a call of estimate whose energies sum to less than the silence
\* threshold, all-zero energies included, returns the smoothed angle stored
\* before the call (none if there was none) and leaves it unchanged.
C11_SilencePreservesState ==
    [][SilentCall(energies') =>
          /\ theta_smooth' = theta_smooth
          /\ returned' = theta_smooth]_estVars

\* a silent call with energies that are not all zero was made on an estimator
\* that holds a smoothed angle, and returned that angle
C11_Witness ==
    /\ energies # <<>>
    /\ SumOver(energies, EstChannels) = 1
    /\ theta_smooth # <<>>
    /\ returned = theta_smooth

\* a call that takes a smoothing step: not silent, with a stored angle
SmoothingStep == theta_smooth # <<>> /\ ~SilentCall(energies')

\* the signed way from angle a to angle b, in [-180, 180)
SignedMove(a, b) == ((b - a + 540) % 360) - 180

\* C12 as stated: the difference d used by a smoothing step lies in
\* (-180, 180] and is congruent to raw - previous modulo 360.
C12_DiffInOpenClosed ==
    [][SmoothingStep =>
          /\ d_diff'[1] > -180 /\ d_diff'[1] <= 180
          /\ (d_diff'[1] - (theta_est'[1] - theta_smooth[1])) % 360 = 0]_estVars

\* C12, amended: the difference d used by a smoothing step lies in
\* [-180, 180) and is congruent to raw - previous modulo 360; the step moves
\* the stored angle the way of d and by no more than |d|, so by at most 180
\* degrees and never the long way round.
C12_ShortestPathSmoothing ==
    [][SmoothingStep =>
          /\ d_diff'[1] >= -180 /\ d_diff'[1] < 180
          /\ (d_diff'[1] - (theta_est'[1] - theta_smooth[1])) % 360 = 0
          /\ LET m == SignedMove(theta_smooth[1], theta_smooth'[1])
             IN  /\ Abs(m) <= Abs(d_diff'[1])
                 /\ Abs(m) <= 180
                 /\ m # 0 => Sgn(m) = Sgn(d_diff'[1])]_estVars

\* a smoothing step across the 0/360 wrap: the raw angle is numerically more
\* than 180 degrees above the stored one and the difference used is negative
C12_Witness ==
    /\ d_diff # <<>>
    /\ d_diff[1] < 0
    /\ theta_est[1] < 360
    /\ LET step == RoundDiv(smoothing_num * d_diff[1], smoothing_den)
           previous == (theta_smooth[1] - step) % 360
       IN  theta_est[1] - previous > 180

\* an angle is unset or in [0, 360)
InRange(a) == a = <<>> \/ (a[1] >= 0 /\ a[1] < 360)

\* C13: after any sequence of estimate calls the stored smoothed angle is
\* unset or in [0, 360), and so is every value estimate returns.
C13_AngleRange == InRange(theta_smooth) /\ InRange(returned)

\* ------------------------------------- bytes_to_audio of src/audio.py (PCM24)
\* a | b on non-negative integers
RECURSIVE BitOr(_, _)
BitOr(a, b) ==
    IF a = 0 THEN b
    ELSE IF b = 0 THEN a
    ELSE 2 * BitOr(a \div 2, b \div 2) + (IF a % 2 = 1 \/ b % 2 = 1 THEN 1 ELSE 0)

\* 2^k
RECURSIVE Pow2(_)
Pow2(k) == IF k = 0 THEN 1 ELSE 2 * Pow2(k - 1)

\* a << k on np.int32 values that stay below 2^31
ShiftLeft(a, k) == a * Pow2(k)

\* the spacing of the float32 values around the integer magnitude a: floats
\* carry 24 significant bits
RECURSIVE Ulp32(_)
Ulp32(a) == IF a < 16777216 THEN 1 ELSE 2 * Ulp32(a \div 2)

\* astype(np.float32) of an integer: the nearest float32, ties to even
AsFloat32(v) == Sgn(v) * Ulp32(Abs(v)) * RoundDiv(Abs(v), Ulp32(Abs(v)))

\* the sign extension with the plausible slip of a strict comparison
SignExtend_Strict(u) == IF u > 8388608 THEN u - 16777216 ELSE u

\* samples_32bit[samples_32bit >= 0x800000] -= 0x1000000
SignExtend(u) == IF u >= 8388608 THEN u - 16777216 ELSE u

\* byte_array.reshape(-1, 3): row i (from 1) of the N x 3 array
Row3(raw_bytes, i) == SubSeq(raw_bytes, 3 * i - 2, 3 * i)

\* the int32 composed of one row: b0 | (b1 << 8) | (b2 << 16)
Compose24(row) ==
    BitOr(BitOr(row[1], ShiftLeft(row[2], 8)), ShiftLeft(row[3], 16))

\* bytes_to_audio(raw_bytes) of src/audio.py: each float32 sample is kept as
\* the exact fraction num / den
bytes_to_audio_pcm24(raw_bytes) ==
    [i \in 1..(Len(raw_bytes) \div 3) |->
        [num |-> AsFloat32(SignExtend(Compose24(Row3(raw_bytes, i)))),
         den |-> Pow2(23)]]

ByteValues == {0, 1, 127, 128, 255}

\* buffers of whole 3-byte groups (reshape(-1, 3) raises on any other length)
RECURSIVE SeqsOfLen(_, _)
SeqsOfLen(S, n) ==
    IF n = 0 THEN {<<>>}
    ELSE {<<x>> \o t : x \in S, t \in SeqsOfLen(S, n - 1)}

PcmBuffers == UNION {SeqsOfLen(ByteValues, 3 * n) : n \in 1..MaxPcmSamples}

DecodePcm24 ==
    /\ audio_array = <<>>
    /\ audio_array' = bytes_to_audio_pcm24(buff)
    /\ UNCHANGED <<barrierVars, putVars, nput, completed, ingestVars, lifeVars,
                   atStop, restVars, estVars, buff, pushed, energyVars>>

InitPcm24 ==
    /\ InitSource /\ required_buffer_size = 4
    /\ buff \in PcmBuffers
    /\ audio_array = <<>>
    /\ pushed = <<>>
    /\ InitEnergy

SpecPcm24 == InitPcm24 /\ [][DecodePcm24]_vars

\* the 24-bit two's-complement value of the bytes b0, b1, b2
Widen24(b0, b1, b2) ==
    LET u == b0 + 256 * b1 + 65536 * b2
    IN  IF u < 8388608 THEN u ELSE u - 16777216

\* C14: for every 3-byte little-endian group b0, b1, b2 of the buffer the
\* decoded sample is the two's-complement widening of u = b0 + 256 b1 +
\* 65536 b2 (u below 2^23, else u - 2^24), an integer in [-2^23, 2^23 - 1],
\* divided by 2^23; 00 00 00 gives 0, FF FF 7F gives 2^23 - 1, 00 00 80 gives
\* -2^23 and FF FF FF gives -1.
C14_Pcm24Widening ==
    audio_array # <<>> =>
        /\ Len(audio_array) * 3 = Len(buff)
        /\ \A i \in 1..Len(audio_array) :
              LET v == Widen24(buff[3 * i - 2], buff[3 * i - 1], buff[3 * i])
              IN  /\ v >= -8388608 /\ v <= 8388607
                  /\ audio_array[i] = [num |-> v, den |-> 8388608]
        /\ buff = <<0, 0, 0>> => audio_array[1].num = 0
        /\ buff = <<255, 255, 127>> => audio_array[1].num = 8388607
        /\ buff = <<0, 0, 128>> => audio_array[1].num = -8388608
        /\ buff = <<255, 255, 255>> => audio_array[1].num = -1

\* the buffer 00 00 80 has been decoded: the most negative sample, -1.0
C14_Witness ==
    /\ buff = <<0, 0, 128>>
    /\ audio_array = <<[num |-> -8388608, den |-> 8388608]>>

\* ------------------------- bytes_to_audio of src/audio/utils.py (FLOAT32_LE)
\* np.frombuffer(raw_bytes, dtype=np.float32): sample i (from 1) is the IEEE-754
\* single whose little-endian bytes are b0 b1 b2 b3, kept as its three fields
Float32At(raw_bytes, i) ==
    LET b0 == raw_bytes[4 * i - 3]
        b1 == raw_bytes[4 * i - 2]
        b2 == raw_bytes[4 * i - 1]
        b3 == raw_bytes[4 * i]
    IN  [sign |-> b3 \div 128,
         exp |-> (b3 % 128) * 2 + b2 \div 128,
         mant |-> (b2 % 128) * 65536 + b1 * 256 + b0]

IsNaN(x) == x.exp = 255 /\ x.mant # 0
IsInf(x) == x.exp = 255 /\ x.mant = 0

Zero32 == [sign |-> 0, exp |-> 0, mant |-> 0]

\* np.nan_to_num with its default arguments: NaN becomes 0.0, +Infinity the
\* largest finite float32 and -Infinity the most negative one
nan_to_num(x) ==
    IF IsNaN(x) THEN Zero32
    ELSE IF IsInf(x) THEN [sign |-> x.sign, exp |-> 254, mant |-> 8388607]
    ELSE x

\* bytes_to_audio(raw_bytes) of utils.py, by sample values
bytes_to_audio_f32(raw_bytes) ==
    [i \in 1..(Len(raw_bytes) \div bytes_per_sample) |->
        nan_to_num(Float32At(raw_bytes, i))]

\* np.abs(x) > 1000 for a float32 that is not NaN: 1000.0 is 0x447A0000
AbsAbove1000(x) == x.exp > 136 \/ (x.exp = 136 /\ x.mant > 7995392)

\* lines 89-93: audio_array[corrupt_mask] = 0.0
MaskCorrupt(arr) ==
    [i \in 1..Len(arr) |-> IF AbsAbove1000(arr[i]) THEN Zero32 ELSE arr[i]]

\* buffers of whole float32 words, little-endian: NaN, +Infinity, -Infinity,
\* 0.0, 1.0, -1.0, 1000.0, 1000.0001, the largest finite value, 1e-45
F32Words ==
    {<<0, 0, 192, 127>>, <<0, 0, 128, 127>>, <<0, 0, 128, 255>>,
     <<0, 0, 0, 0>>, <<0, 0, 128, 63>>, <<0, 0, 128, 191>>,
     <<0, 0, 122, 68>>, <<1, 0, 122, 68>>, <<255, 255, 127, 127>>,
     <<1, 0, 0, 0>>}

RECURSIVE WordBuffers(_)
WordBuffers(n) ==
    IF n = 0 THEN {<<>>}
    ELSE {w \o t : w \in F32Words, t \in WordBuffers(n - 1)}

F32Buffers == UNION {WordBuffers(n) : n \in 1..MaxWords}

\* line 84: audio_array = bytes_to_audio(buff)
DecodeFloat32 ==
    /\ audio_array = <<>>
    /\ audio_array' = bytes_to_audio_f32(buff)
    /\ UNCHANGED <<barrierVars, putVars, nput, completed, ingestVars, lifeVars,
                   atStop, restVars, estVars, buff, pushed, energyVars>>

\* lines 89-97: the mask, then self._push_data(channel_id, normalize(audio_array))
MaskAndPush ==
    /\ audio_array # <<>>
    /\ pushed = <<>>
    /\ pushed' = normalize(MaskCorrupt(audio_array))
    /\ UNCHANGED <<barrierVars, putVars, nput, completed, ingestVars, lifeVars,
                   atStop, restVars, estVars, buff, audio_array, energyVars>>

NextFloat32 == DecodeFloat32 \/ MaskAndPush

InitFloat32 ==
    /\ InitSource /\ required_buffer_size = 4
    /\ buff \in F32Buffers
    /\ audio_array = <<>>
    /\ pushed = <<>>
    /\ InitEnergy

SpecFloat32 == InitFloat32 /\ [][NextFloat32]_vars

\* C15: each sample of the buffer whose bit pattern is NaN, +Infinity or
\* -Infinity is returned by bytes_to_audio as 0.0, and every other sample is
\* returned unchanged.
C15_NonFiniteScrubbed ==
    \A i \in 1..Len(audio_array) :
        LET x == Float32At(buff, i)
        IN  IF x.exp = 255
            THEN audio_array[i] = [sign |-> 0, exp |-> 0, mant |-> 0]
            ELSE audio_array[i] = x

\* ------------------------------------------------- configuration at construction
\* buffer_size values a caller may pass; 0 is the default of the constructor
\* and 2 is truncated to 0 by it
ConfigBufferSizes == {-5, -4, 0, 2, 4}

InitConfig ==
    /\ \E buffer_size \in ConfigBufferSizes : Construct(buffer_size)
    /\ InitDecoder
    /\ InitEnergy

SpecConfig == InitConfig /\ [][NextLife]_vars

\* a source whose buffer size is changed while it ingests
NextResize == NextIngest \/ \E buffer_size \in SetSizes : SetBufferSize(buffer_size)

SpecResize == Init /\ [][NextResize]_vars

\* the source is RUNNING: started, with its drain thread and its backend
Running == _continue /\ _thread = "alive" /\ engineState = "playing"

\* C16: a source constructed with a zero or negative frame size never
\* reaches RUNNING: the construction raises.
C16_BadConfigNeverRuns == required_buffer_size <= 0 => ~Running

\* ------------------------------------------------------------ compute_energy
\* A sample or a sum is a float: a finite value v ("fin"), the largest finite
\* float32 with sign v ("max"), an infinity with sign v ("inf"), or NaN.
Fin(v) == [k |-> "fin", v |-> v]
NaN == [k |-> "nan", v |-> 0]
PosInf == [k |-> "inf", v |-> 1]

\* s**2: NaN stays NaN, an infinity becomes +Infinity, and the square of the
\* largest finite float32 overflows to +Infinity
Square(s) ==
    IF s.k = "nan" THEN NaN
    ELSE IF s.k = "fin" THEN Fin(s.v * s.v)
    ELSE PosInf

\* a + b for a sum a and a square b (never a negative infinity)
FloatAdd(a, b) ==
    IF a.k = "nan" \/ b.k = "nan" THEN NaN
    ELSE IF a.k = "inf" \/ b.k = "inf" THEN PosInf
    ELSE Fin(a.v + b.v)

\* sum(...) of Python: a left fold that starts from 0
RECURSIVE SumSquares(_, _)
SumSquares(acc, rest) ==
    IF rest = <<>> THEN acc
    ELSE SumSquares(FloatAdd(acc, Square(Head(rest))), Tail(rest))

\* compute_energy(samples): sum(s**2 for s in samples)
compute_energy(smp) == SumSquares(Fin(0), smp)

SampleValues ==
    {Fin(-2), Fin(0), Fin(1), Fin(3), NaN, PosInf,
     [k |-> "inf", v |-> -1], [k |-> "max", v |-> 1]}

Frames == UNION {SeqsOfLen(SampleValues, n) : n \in 0..MaxSamples}

ComputeEnergy ==
    /\ energy = <<>>
    /\ energy' = <<compute_energy(samples)>>
    /\ UNCHANGED <<barrierVars, putVars, nput, completed, ingestVars, lifeVars,
                   atStop, restVars, estVars, decVars, samples>>

InitComputeEnergy ==
    /\ InitSource /\ required_buffer_size = 4
    /\ InitDecoder
    /\ samples \in Frames
    /\ energy = <<>>

SpecEnergy == InitComputeEnergy /\ [][ComputeEnergy]_vars

\* the sum of the squares of the samples of a frame, a non-finite sample
\* counting as 0
RECURSIVE FiniteSquares(_)
FiniteSquares(smp) ==
    IF smp = <<>> THEN 0
    ELSE (IF Head(smp).k = "fin" THEN Head(smp).v * Head(smp).v ELSE 0)
         + FiniteSquares(Tail(smp))

\* C17: compute_energy returns the sum of s*s over the samples of the frame
\* with every non-finite sample taken as 0, so 0 for an empty or all-zero
\* frame, and never a non-finite value.
C17_EnergySumOfSquares ==
    energy # <<>> =>
        /\ energy[1].k = "fin"
        /\ energy[1].v = FiniteSquares(samples)

\* ------------------------------------------------------------- FIFO pairing
\* C18: the k-th FrameSet pushed to the completed queue since construction
\* consists, for every channel i, of the k-th frame put on channel i (so a
\* completion takes the oldest frame of every channel FIFO and leaves the
\* later ones queued in order).
C18_FifoPairing ==
    \A k \in 1..Len(completed) : \A i \in Channels :
        /\ Len(completed[k]) = NumChannels
        /\ completed[k][i + 1].ch = i
        /\ completed[k][i + 1].n = k

\* ---------------------------------------------------- no byte lost mid-stream
\* the frames channel c has emitted so far, in order: those in completed
\* FrameSets, then those still waiting in the channel FIFO
EmittedFrames(c) ==
    [k \in 1..Len(completed) |-> completed[k][c + 1]] \o _channel_queues[c]

\* the bytes of the emitted frames of channel c followed by its pending buffer
RECURSIVE BytesOfFrames(_)
BytesOfFrames(fs) ==
    IF fs = <<>> THEN <<>> ELSE FrameBytes(Head(fs)) \o BytesOfFrames(Tail(fs))

EmittedThenPending(c) == BytesOfFrames(EmittedFrames(c)) \o _sinks_data[c]

Clean ==
    /\ \A c \in Channels : _channel_queues[c] = <<>> /\ _sinks_data[c] = <<>>
    /\ _ready = <<>>

\* the bytes of every FrameSet delivered after the latest return of stop()
\* were ingested after it
NothingOldDelivered ==
    atStop # <<>> =>
        \A k \in (atStop[1].delivered + 1)..Len(delivered) :
            \A c \in Channels :
                \A b \in Range(FrameBytes(delivered[k][c + 1])) :
                    b > atStop[1].fed[c]

\* C20: when stop() returns the drain loop has exited, every channel FIFO
\* and the completed queue of the barrier are empty and every pending buffer
\* is empty; and no byte ingested before a stop() is part of a FrameSet
\* delivered after it.
C20_StopLeavesCleanState ==
    [][/\ (ctlPc = "joining" /\ ctlPc' = "idle") =>
              /\ _thread' \in {"finished", "crashed"}
              /\ ~_continue'
              /\ Clean'
       /\ NothingOldDelivered']_vars

\* stop() has returned on a source that had ingested bytes, completed a
\* FrameSet that was not delivered and held a fragment
C20_Witness ==
    /\ ctlPc = "idle"
    /\ atStop # <<>>
    /\ atStop[1].fed = fed
    /\ \E c \in Channels : fed[c] % bytes_per_sample # 0
    /\ Len(completed) > Len(delivered)
    /\ Clean

\* ------------------------------------------------ stop() interrupts the drain
\* stop() has cleared _continue and no start() has set it since
Signalled == atSignal # <<>> /\ ~_continue

\* FrameSets passed to the callback since stop() last cleared _continue
SinceSignal == Len(delivered) - atSignal[1].delivered

\* C21 as stated: once stop() has cleared _continue, the drain loop starts
\* no callback invocation other than one that was in progress at that moment.
C21_NoCallbackStartsAfterSignal ==
    Signalled =>
        SinceSignal <= (IF atSignal[1].pc = "emit" THEN 1 ELSE 0)

\* C21, amended: once stop() has cleared _continue, the drain loop passes at
\* most one more FrameSet to the callback, and only when it had already
\* tested its loop condition (it was about to take, or had taken, a
\* FrameSet) at that moment; and the join of stop() returns, FrameSets
\* still queued or not.
C21_StopInterruptsDrain ==
    /\ [](Signalled =>
            /\ SinceSignal <= 1
            /\ SinceSignal = 1 => atSignal[1].pc \in {"get", "emit"})
    /\ (ctlPc = "joining") ~> (ctlPc = "idle")

\* the drain loop has exited after stop() cleared _continue between its
\* loop test and its get(): it delivered that one FrameSet and left another
\* in the completed queue
C21_Witness ==
    /\ ctlPc = "joining"
    /\ _thread = "finished"
    /\ Signalled
    /\ atSignal[1].pc = "get"
    /\ SinceSignal = 1
    /\ _ready # <<>>

\* ------------------------------------------------- clear() beside the puts
\* C22: in every interleaving of clear() with put() calls, no put waits on
\* an empty FIFO, every FrameSet in the completed queue has exactly one
\* frame per channel, and once clear() has returned no FrameSet in the
\* completed queue holds a frame whose put had returned before that clear()
\* began.
C22_ClearThreadSafe ==
    /\ \A t \in Channels : ~PutBlocked(t)
    /\ \A k \in 1..Len(_ready) : WellFormed(_ready[k])
    /\ (atClear # <<>> /\ atClear[1].returned) =>
          \A k \in 1..Len(_ready) : \A c \in Channels :
              _ready[k][c + 1].n > atClear[1].done[c]

\* ------------------------------------------------------ frame size alignment
\* C23: whatever frame size is configured, at construction or later by
\* set_buffer_size, every buffer a callback hands to the decoder has the
\* configured size truncated down to a multiple of bytes_per_sample as its
\* length, and so is never misaligned.
C23_SlicesAligned ==
    [][\A c \in Channels : fed'[c] # fed[c] =>
          \A k \in 1..Len(handed'[c]) :
              /\ Len(handed'[c][k]) = Aligned(required_buffer_size)
              /\ Len(handed'[c][k]) % bytes_per_sample = 0]_vars

\* ----------------------------------------------------------------- starvation
\* C24: while one channel has put no frame, however many frames the other
\* channels put, the completed queue stays empty, no put waits, and every
\* frame put is still in the FIFO of its channel, whose depth is the number
\* of puts made on it.
C24_StarvationSilent ==
    (\E s \in Channels : nput[s] = 0) =>
        /\ _ready = <<>>
        /\ completed = <<>>
        /\ \A t \in Channels : ~PutBlocked(t)
        /\ \A c \in Channels :
              /\ Len(_channel_queues[c]) = nput[c]
              /\ \A k \in 1..nput[c] : _channel_queues[c][k].n = k

\* one channel has put nothing and every other channel has returned from
\* all its puts
C24_Witness ==
    \E s \in Channels :
        /\ nput[s] = 0
        /\ \A t \in Channels \ {s} : PutDone(t)

\* ------------------------------------------------------------ frame timestamps
\* index, in the stream of its channel, of the first sample of a frame
FirstSample(f) == (FrameBytes(f)[1] - 1) \div bytes_per_sample

\* C25: every frame a callback emits carries as its timestamp the sample
\* index the channel had reached when the frame was sliced, and the
\* timestamps of consecutive frames of a channel differ by the number of
\* samples of one frame.
C25_TimestampsAdvance ==
    \A c \in Channels : \A k \in 1..Len(lastEmit[c]) :
        /\ Stamp(lastEmit[c][k]) = <<FirstSample(lastEmit[c][k])>>
        /\ k > 1 =>
              Stamp(lastEmit[c][k])[1] - Stamp(lastEmit[c][k - 1])[1]
                  = Aligned(required_buffer_size) \div bytes_per_sample

\* ------------------------------------------------------------- first estimate
\* all the energy of e is on channel k
OnlyChannel(e, k) == e[k] > 0 /\ \A j \in EstChannels \ {k} : e[j] = 0

\* the bearing of channel k, mapped into [0, 360)
Bearing(k) == ((k * angle_coverage) \div Cardinality(EstChannels)) % 360

\* the call returned the bearing of channel k and stored it, unsmoothed
AdoptsBearing(k) ==
    /\ returned' = <<Bearing(k)>>
    /\ theta_smooth' = <<Bearing(k)>>
    /\ d_diff' = <<>>

\* C26 as stated: a call of estimate on an estimator with no previous
\* estimate, with all energy on one channel k, returns the bearing of
\* channel k and stores it as the smoothed angle, without smoothing.
C26_FirstEstimateAdoptsRaw ==
    [][\A k \in EstChannels :
          (theta_smooth = <<>> /\ OnlyChannel(energies', k)) => AdoptsBearing(k)
      ]_estVars

\* C26, amended: the same, for a call whose energy is not below the silence
\* threshold; a call below it returns no angle and stores none.
C26_FirstLoudEstimateAdoptsRaw ==
    [][\A k \in EstChannels :
          (theta_smooth = <<>> /\ OnlyChannel(energies', k)) =>
              IF energies'[k] >= silence_threshold
              THEN AdoptsBearing(k)
              ELSE returned' = <<>> /\ theta_smooth' = <<>>
      ]_estVars

\* the first loud call had all its energy on the channel at bearing 270,
\* after a silent call, and 270 was returned and stored
C26_Witness ==
    /\ energies # <<>>
    /\ OnlyChannel(energies, 3)
    /\ theta_est = <<270>>
    /\ d_diff = <<>>
    /\ returned = <<270>>
    /\ theta_smooth = <<270>>

\* ------------------------------------------------------ ingest terminates
\* C27: whatever buffer size the source was constructed with, every call of
\* _on_new_sample returns, and every iteration of its slicing loop takes at
\* least one byte off the pending buffer.
C27_IngestTerminates ==
    \A c \in Channels :
        /\ outcome[c] # "raised"
        /\ \A k \in 1..Len(handed[c]) : Len(handed[c][k]) >= 1

\* ------------------------------------------------------ barrier conservation
\* the least number of frames put on a channel
MinPut == CHOOSE m \in {nput[c] : c \in Channels} : \A c \in Channels : m <= nput[c]

\* C28: after any sequence of puts made one at a time, with no clear, the
\* number of FrameSets completed so far is the least number of frames put on
\* a channel, each channel FIFO holds the frames put on it beyond that
\* number, and so at least one channel FIFO is empty.
C28_BarrierConservation ==
    /\ Len(completed) = MinPut
    /\ \A c \in Channels : Len(_channel_queues[c]) = nput[c] - MinPut
    /\ \E c \in Channels : _channel_queues[c] = <<>>

\* FrameSets have been completed and a channel that is ahead of another
\* holds the frames it put since
C28_Witness ==
    /\ MinPut >= 1
    /\ \E c \in Channels : nput[c] > MinPut /\ Len(_channel_queues[c]) >= 1

\* ------------------------------------------ the two barrier implementations
\* C29: given the same puts and gets, one call at a time, the lock-free
\* MultiChannelQueue and the one with a lock hold the same channel FIFOs
\* and the same completed queue after every call, and their gets return
\* the same FrameSets.
C29_ImplementationsAgree ==
    /\ channel_queues = _channel_queues
    /\ ready = _ready
    /\ taken = held

\* a get has returned a FrameSet, and a channel that has made all its puts
\* still holds a frame
C29_Witness ==
    /\ taken # <<>>
    /\ \E c \in Channels : nput[c] = MaxPuts /\ Len(channel_queues[c]) >= 1

\* ------------------------------------------------- hand-off to the main loop
\* C30: AudioProcess holds at most one FrameSet, the latest delivered; a
\* get_last_channels() made after is_empty() returned False never returns
\* None; and the main loop receives no FrameSet twice and none older than
\* one it has received.
C30_LatestOnlyHandoff ==
    /\ Len(audio_queue) <= maxlen
    /\ audio_queue # <<>> => audio_queue[1] = delivered[Len(delivered)]
    /\ mainPc = "get" => audio_queue # <<>>
    /\ \A i \in 1..Len(channels) : channels[i] # <<>>
    /\ \A i, j \in 1..Len(channels) :
          i < j => Pos(channels[i][1]) < Pos(channels[j][1])

\* two FrameSets were delivered and the main loop received the second only:
\* the first was replaced in the deque before the main loop took it
C30_Witness ==
    /\ Len(delivered) = 2
    /\ channels = <<<<delivered[2]>>>>
    /\ audio_queue = <<>>

====
